---- MODULE Spec2Model ----
(***************************************************************************)
(* dbX: two FastAPI services that move Arrow tables between local files    *)
(* and relational databases.                                               *)
(*   svc = "root"   : src/app.py        (databases "postgres" / "sqlite")  *)
(*   svc = "python" : src/python/app.py (roles "source" / "target")        *)
(* Each request handler is one action.  Every library call of a handler    *)
(* (pyarrow, ADBC, ConnectorX, pgeon, os.makedirs) may raise; the input    *)
(* `flt` of an action names the call that raises in that request.          *)
(***************************************************************************)
EXTENDS Integers, Sequences, FiniteSets, TLC

VARIABLES svc, conns, durable, session, fs, req, resp, log, used, raised, moved, served,
          loop

vars == <<svc, conns, durable, session, fs, req, resp, log, used, raised, moved, served,
          loop>>

\* svc      the service that is running
\* conns    the connections opened at start-up: name -> handle
\* durable  committed contents of each database
\* session  contents each shared connection sees (committed + its open transaction)
\* fs       files and directories under base_dir
\* req, resp  the last request served and its response
\* log      the library calls the last request made, in order
\* used     the connection handles the last request obtained
\* raised   the exception raised in the last handler's try body, if any
\* moved    the Arrow table the last request held
\* served   number of requests served
\* loop     the server's event loop: the coroutine it is running and the
\*          position of each request's handler coroutine

-----------------------------------------------------------------------------
(* Bounds of the model *)

\* number of requests served in one run
MaxRequests == 2

-----------------------------------------------------------------------------
(* Values *)

Services == {"root", "python"}
Tables == {"t1", "t2"}
RootDatabases == {"postgres", "sqlite"}
Roles == {"source", "target"}
ConnNames(s) == IF s = "root" THEN RootDatabases ELSE Roles
\* database identifiers / roles a request may carry (one unsupported each)
DatabaseIds(s) == ConnNames(s) \cup {"oracle"}
Formats == {"csv", "parquet", "feather"}
\* the format tags export-connectorx and export-pgeon requests carry
ConnectorxFormats == {"csv", "parquet"}
PgeonFormats == {"csv", "parquet"}
\* the format tags load requests carry
LoadFormats == {"parquet"}
\* the table load requests name
LoadTables == {"t2"}
\* the table export requests name
ExportTables == {"t1"}

Field(n, t) == [name |-> n, type |-> t, nullable |-> TRUE]

\* the table of generate_test_data: columns ints, strs and three rows
TestSchema == <<Field("ints", "int64"), Field("strs", "string")>>
TestRows == <<1, 2, 3>>
TestTable == [schema |-> TestSchema, rows |-> TestRows]
NoTbl == [schema |-> <<>>, rows |-> <<>>]

\* a database table: absent, or a schema and its rows
NoTable == [exists |-> FALSE, schema |-> <<>>, rows |-> <<>>]
DbTable(sch, rws) == [exists |-> TRUE, schema |-> sch, rows |-> rws]
EmptyDb == [t \in Tables |-> NoTable]

\* exceptions
NoExc == [type |-> "none", detail |-> ""]
Exc(t, d) == [type |-> t, detail |-> d]

\* str(e): starlette's HTTPException prints "<status_code>: <detail>", every
\* other exception prints its message
Str(e) == IF e.type = "HTTPException" THEN "400: " \o e.detail ELSE e.detail

Upper(s) ==
  CASE s = "csv" -> "CSV"
    [] s = "parquet" -> "PARQUET"
    [] s = "feather" -> "FEATHER"
    [] s = "postgres" -> "POSTGRES"
    [] s = "sqlite" -> "SQLITE"
    [] s = "source" -> "SOURCE"
    [] s = "target" -> "TARGET"
    [] s = "oracle" -> "ORACLE"
    [] OTHER -> s

-----------------------------------------------------------------------------
(* The local file system under base_dir *)

NoFile == [kind |-> "none", format |-> "", schema |-> <<>>, rows |-> <<>>,
           partitioning |-> <<>>]
FileOf(fmt, t) == [kind |-> "file", format |-> fmt, schema |-> t.schema,
                   rows |-> t.rows, partitioning |-> <<>>]
DatasetOf(fmt, t, part) == [kind |-> "dataset", format |-> fmt, schema |-> t.schema,
                            rows |-> t.rows, partitioning |-> part]

TestDir == "test_data"
CsvFile == "test_data/example.csv"
IpcFile == "test_data/example.arrow"
ParquetFile == "test_data/example.parquet"
CsvDataset == "test_data/csv_dataset"
IpcDataset == "test_data/ipc_dataset"
ParquetDataset == "test_data/parquet_dataset"
ExportPath == "out/t"
FilePaths == {CsvFile, IpcFile, ParquetFile, CsvDataset, IpcDataset, ParquetDataset,
              ExportPath}
DirNames == {TestDir, "out"}

\* os.path.dirname
Dirname(p) == IF p = ExportPath THEN "out" ELSE TestDir

\* request values for the source location ("" is an absent or empty field)
LocalPaths == {"", ParquetFile}
Directories == {"", ParquetDataset}
Partitionings == {<<>>, <<"ints">>}

FieldNames(sch) == {sch[i].name : i \in DOMAIN sch}

\* the fields of sch whose name is not a partition column (a partitioned
\* dataset keeps the partition columns in its directory names)
RECURSIVE DropFields(_, _)
DropFields(sch, names) ==
  IF sch = <<>> THEN <<>>
  ELSE IF Head(sch).name \in names THEN DropFields(Tail(sch), names)
       ELSE <<Head(sch)>> \o DropFields(Tail(sch), names)

SeqRange(s) == {s[i] : i \in DOMAIN s}

\* partition fields discovered from directory names get an inferred type
PartFields(part) == [i \in DOMAIN part |-> Field(part[i], "int32")]

\* what ds.dataset(path, format, partitioning).to_table() yields for a stored
\* entry: a single file as written; a partitioned dataset without its partition
\* columns unless the same partitioning is asked for
ReadEntry(e, part) ==
  IF e.kind = "dataset"
  THEN [schema |-> DropFields(e.schema, SeqRange(e.partitioning))
                    \o (IF part = e.partitioning THEN PartFields(part) ELSE <<>>),
        rows |-> e.rows]
  ELSE [schema |-> e.schema, rows |-> e.rows]

-----------------------------------------------------------------------------
(* Faults: the library call that raises in a request *)

FaultPoints == {"none", "read", "makedirs", "query", "ingest", "commit", "write"}
\* at: the failing call; part: whether a failing ingest leaves its first row
\* behind; rb: whether a rollback issued by an error handler raises
Faults == [at : FaultPoints, part : BOOLEAN, rb : BOOLEAN]
\* the faults a handler whose library calls are `points` can meet
FaultsAt(points, withRollback) ==
  {f \in Faults : /\ f.at \in points \cup {"none"}
                  /\ f.part => f.at = "ingest"
                  /\ f.rb => withRollback}

-----------------------------------------------------------------------------
(* Request context threaded through the statements of a handler's try body. *)
(* Once c.exc is set the remaining statements are skipped.                  *)

Step(op, on, ok) == [op |-> op, on |-> on, ok |-> ok]

\* raise e, unless an earlier statement already raised
Raise(c, e) == IF c.exc # NoExc THEN c ELSE [c EXCEPT !.exc = e]
Logged(c, op, on, ok) == [c EXCEPT !.log = Append(@, Step(op, on, ok))]
Failed(c, op, on, e) == Raise(Logged(c, op, on, FALSE), e)
\* the call the request's fault names raises
Faulted(c, op, on, e) == [Failed(c, op, on, e) EXCEPT !.hit = TRUE]

\* ds.dataset(path, format=..., partitioning=...) followed by to_table()
ReadDataset(c, path, fmt, part, flt) ==
  LET e == c.fs.files[path] IN
  IF c.exc # NoExc THEN c
  ELSE IF flt.at = "read" THEN Faulted(c, "read_file", path, Exc("ArrowError", "read failed"))
  ELSE IF e.kind = "none"
       THEN Failed(c, "read_file", path, Exc("FileNotFoundError", path))
  ELSE IF e.format # fmt
       THEN Failed(c, "read_file", path, Exc("ArrowInvalid", "not a " \o fmt \o " file"))
  ELSE [Logged(c, "read_file", path, TRUE) EXCEPT !.tbl = ReadEntry(e, part)]

\* pq.ParquetFile(path): the file is opened as Parquet whatever the request says
ReadParquetFile(c, path, flt) ==
  LET e == c.fs.files[path] IN
  IF c.exc # NoExc THEN c
  ELSE IF flt.at = "read" THEN Faulted(c, "read_file", path, Exc("ArrowError", "read failed"))
  ELSE IF e.kind # "file"
       THEN Failed(c, "read_file", path, Exc("FileNotFoundError", path))
  ELSE IF e.format # "parquet"
       THEN Failed(c, "read_file", path, Exc("ArrowInvalid", "not a parquet file"))
  ELSE [Logged(c, "read_file", path, TRUE) EXCEPT !.tbl = ReadEntry(e, <<>>)]

\* cur.adbc_ingest(table_name, data, mode="create_append") on connection cn:
\* the table is created when absent, the rows are appended to it otherwise;
\* nothing is durable until commit.  A failing ingest leaves nothing or its
\* first row behind in the open transaction.
AppendRows(tab, data, n) ==
  IF ~tab.exists THEN DbTable(data.schema, SubSeq(data.rows, 1, n))
  ELSE DbTable(tab.schema, tab.rows \o SubSeq(data.rows, 1, n))

AdbcIngest(c, cn, t, flt) ==
  LET tab == c.session[cn][t]
      fits == ~tab.exists \/ tab.schema = c.tbl.schema
      k == IF flt.part /\ c.tbl.rows # <<>> THEN 1 ELSE 0
  IN
  IF c.exc # NoExc THEN c
  ELSE IF flt.at = "ingest"
       THEN [Faulted(c, "ingest", cn, Exc("OperationalError", "ingest failed"))
               EXCEPT !.session[cn][t] = IF fits /\ k > 0 THEN AppendRows(tab, c.tbl, k)
                                         ELSE @]
  ELSE IF ~fits
       THEN Failed(c, "ingest", cn, Exc("ProgrammingError", "schema mismatch"))
  ELSE [Logged(c, "ingest", cn, TRUE)
          EXCEPT !.session[cn][t] = AppendRows(tab, c.tbl, Len(c.tbl.rows))]

\* conn.commit(): the connection's open transaction becomes durable
Commit(c, cn, flt) ==
  IF c.exc # NoExc THEN c
  ELSE IF flt.at = "commit"
       THEN Faulted(c, "commit", cn, Exc("OperationalError", "commit failed"))
  ELSE [Logged(c, "commit", cn, TRUE) EXCEPT !.durable[cn] = c.session[cn]]

\* cur.execute("SELECT * FROM t"); cur.fetch_arrow_table() on connection cn:
\* the connection sees its own uncommitted rows
ExecuteFetch(c, cn, t, flt) ==
  LET tab == c.session[cn][t] IN
  IF c.exc # NoExc THEN c
  ELSE IF flt.at = "query"
       THEN Faulted(c, "query", cn, Exc("OperationalError", "query failed"))
  ELSE IF ~tab.exists
       THEN Failed(c, "query", cn, Exc("ProgrammingError", "no such table: " \o t))
  ELSE [Logged(c, "query", cn, TRUE) EXCEPT !.tbl = [schema |-> tab.schema, rows |-> tab.rows]]

\* cx.read_sql(uri, "SELECT * FROM t", ...) and pgeon's copy_query(uri, ...):
\* a connection of their own to database db, which sees committed data only;
\* partition_on must name a column of the table
ReadSql(c, db, t, part, flt) ==
  LET tab == c.durable[db][t] IN
  IF c.exc # NoExc THEN c
  ELSE IF flt.at = "query"
       THEN Faulted(c, "query", db, Exc("RuntimeError", "query failed"))
  ELSE IF ~tab.exists
       THEN Failed(c, "query", db, Exc("RuntimeError", "no such table: " \o t))
  ELSE IF part # <<>> /\ part[1] \notin FieldNames(tab.schema)
       THEN Failed(c, "query", db, Exc("RuntimeError", "no such column: " \o part[1]))
  ELSE [Logged(c, "query", db, TRUE) EXCEPT !.tbl = [schema |-> tab.schema, rows |-> tab.rows]]

\* os.makedirs(d, exist_ok=True)
MakeDirs(c, d, flt) ==
  IF c.exc # NoExc THEN c
  ELSE IF flt.at = "makedirs"
       THEN Faulted(c, "makedirs", d, Exc("PermissionError", d))
  ELSE [Logged(c, "makedirs", d, TRUE) EXCEPT !.fs.dirs = @ \cup {d}]

\* pq.write_table / feather.write_feather / pv.write_csv: one file at path
WriteFile(c, path, fmt, t, flt) ==
  IF c.exc # NoExc THEN c
  ELSE IF flt.at = "write"
       THEN Faulted(c, "write_file", path, Exc("OSError", "write failed"))
  ELSE [Logged(c, "write_file", path, TRUE) EXCEPT !.fs.files[path] = FileOf(fmt, t)]

\* ds.write_dataset(table, path, format=..., partitioning=[...]): the partition
\* columns must be columns of the table
WriteDataset(c, path, fmt, t, part, flt) ==
  IF c.exc # NoExc THEN c
  ELSE IF flt.at = "write"
       THEN Faulted(c, "write_file", path, Exc("OSError", "write failed"))
  ELSE IF ~(SeqRange(part) \subseteq FieldNames(t.schema))
       THEN Failed(c, "write_file", path, Exc("KeyError", part[1]))
  ELSE [Logged(c, "write_file", path, TRUE) EXCEPT !.fs.files[path] = DatasetOf(fmt, t, part)]

-----------------------------------------------------------------------------
(* Requests *)

NoReq == [endpoint |-> "", table_name |-> "", local_path |-> "", directory |-> "",
          file_format |-> "", partitioning |-> <<>>, database |-> "",
          export_path |-> "", source_table |-> "", target_table |-> ""]

\* LoadDataRequest; `database` is the field database (root) or database_role (python)
LoadDataRequests(s) ==
  {[NoReq EXCEPT !.endpoint = "load-data", !.table_name = t, !.local_path = lp,
                 !.directory = d, !.file_format = f, !.partitioning = pt, !.database = db] :
     t \in LoadTables, lp \in LocalPaths, d \in Directories, f \in LoadFormats,
     pt \in Partitionings, db \in DatabaseIds(s)}

\* ExportDataRequest
ExportDataRequests(s, ep, formats, partitionings) ==
  {[NoReq EXCEPT !.endpoint = ep, !.table_name = t, !.export_path = ExportPath,
                 !.file_format = f, !.partitioning = pt, !.database = db] :
     t \in ExportTables, f \in formats, pt \in partitionings, db \in DatabaseIds(s)}

\* CopyTableRequest; the python service's model has no database field
CopyTableRequests(s, ep) ==
  {[NoReq EXCEPT !.endpoint = ep, !.source_table = st, !.target_table = tt, !.database = db] :
     st \in Tables, tt \in Tables,
     db \in IF s = "root" THEN DatabaseIds(s) ELSE {""}}

-----------------------------------------------------------------------------
(* Helpers of the services *)

\* get_connection with the two module-level connections exchanged
get_connection_swapped(database) ==
  IF database = "postgres" THEN [exc |-> NoExc, conn |-> "sqlite"]
  ELSE IF database = "sqlite" THEN [exc |-> NoExc, conn |-> "postgres"]
  ELSE [exc |-> Exc("ValueError", "Unsupported database"), conn |-> "unbound"]

\* src/app.py: the module-level pg_conn / sqlite_conn
get_connection(database) ==
  IF database = "postgres" THEN [exc |-> NoExc, conn |-> "postgres"]
  ELSE IF database = "sqlite" THEN [exc |-> NoExc, conn |-> "sqlite"]
  ELSE [exc |-> Exc("ValueError", "Unsupported database"), conn |-> "unbound"]

\* src/python/database.py: DatabaseConnectionManager.get_connection
db_manager_get_connection(db_role) ==
  IF db_role = "source" THEN [exc |-> NoExc, conn |-> "source"]
  ELSE IF db_role = "target" THEN [exc |-> NoExc, conn |-> "target"]
  ELSE [exc |-> Exc("ValueError", "Invalid database role. Use 'source' or 'target'."),
        conn |-> "unbound"]

\* conn = get_connection(...): binds the handler's local to the connection
Resolve(c, r) ==
  IF c.exc # NoExc THEN c
  ELSE IF r.exc # NoExc THEN Failed(c, "resolve", "", r.exc)
  ELSE [Logged(c, "resolve", r.conn, TRUE) EXCEPT !.conn = r.conn,
                                                   !.used = @ \cup {conns[r.conn]}]

\* source_uri = ...: a connection string for a client of its own; no shared
\* connection is touched
ResolveUri(c, r) ==
  IF c.exc # NoExc THEN c
  ELSE IF r.exc # NoExc THEN Failed(c, "uri", "", r.exc)
  ELSE [Logged(c, "uri", r.db, TRUE) EXCEPT !.uri = r.db]

\* ingest_to_database with the commit issued before the ingest
ingest_to_database_commit_first(c, cn, t, flt) == AdbcIngest(Commit(c, cn, flt), cn, t, flt)

\* ingest_to_database(conn, table_name, reader): ingest, then commit
ingest_to_database(c, cn, t, flt) == Commit(AdbcIngest(c, cn, t, flt), cn, flt)

\* {field.name: str(field.type) for field in schema}: a later field of the
\* same name replaces an earlier one
LastIndex(sch, n) == CHOOSE i \in DOMAIN sch :
                       /\ sch[i].name = n
                       /\ \A j \in DOMAIN sch : sch[j].name = n => j <= i
SchemaDict(sch) == [n \in FieldNames(sch) |-> sch[LastIndex(sch, n)].type]

\* src/app.py generate_metadata(table)
generate_metadata(t) ==
  [num_rows |-> Len(t.rows), num_columns |-> Len(t.schema), schema |-> SchemaDict(t.schema)]

\* src/python/app.py generate_metadata(schema_or_table): the list of fields
py_generate_metadata(t) ==
  [fields |-> [i \in DOMAIN t.schema |->
                 [name |-> t.schema[i].name, type |-> t.schema[i].type,
                  nullable |-> t.schema[i].nullable]]]

NoMeta == [n \in {} |-> 0]

SetMeta(c, m) == IF c.exc # NoExc THEN c ELSE [c EXCEPT !.meta = m]
SetStatus(c, st) == IF c.exc # NoExc THEN c ELSE [c EXCEPT !.status = st]

\* the state a handler starts from
Ctx0 == [exc |-> NoExc, log |-> <<>>, session |-> session, durable |-> durable,
         fs |-> fs, tbl |-> NoTbl, conn |-> "unbound", uri |-> "", used |-> {},
         meta |-> NoMeta, status |-> "", hit |-> FALSE, rbhit |-> FALSE]

-----------------------------------------------------------------------------
(* Responses *)

\* a returned dict, serialised through the response model
Ok(c, withMeta) ==
  [code |-> 200,
   body |-> IF withMeta
            THEN [status |-> c.status, time_taken |-> 0, metadata |-> c.meta]
            ELSE [status |-> c.status, time_taken |-> 0]]

\* raise HTTPException(status_code=500, detail=str(e))
Http500(e) == [code |-> 500, body |-> [detail |-> Str(e)]]

\* an exception that leaves the handler: the server's own error page
ServerError == [code |-> 500, body |-> [detail |-> "Internal Server Error"]]

\* try: body  except Exception as e: raise HTTPException(500, str(e))
Respond(c, withMeta) ==
  [ctx |-> c, resp |-> IF c.exc = NoExc THEN Ok(c, withMeta) ELSE Http500(c.exc)]

-----------------------------------------------------------------------------
(* Handlers of src/app.py *)

Http400(d) == Exc("HTTPException", d)

\* the if / elif / else that picks the ConnectorX URI from data.database
source_uri(database) ==
  IF database = "postgres" THEN [exc |-> NoExc, db |-> "postgres"]
  ELSE IF database = "sqlite" THEN [exc |-> NoExc, db |-> "sqlite"]
  ELSE [exc |-> Http400("Unsupported database"), db |-> ""]

\* load_data with the two source fields tested in the other order
load_data_local_path_first(p, flt) ==
  LET c1 == IF p.local_path # ""
            THEN ReadDataset(Ctx0, p.local_path, p.file_format, <<>>, flt)
            ELSE IF p.directory # ""
            THEN ReadDataset(Ctx0, p.directory, p.file_format, p.partitioning, flt)
            ELSE Raise(Ctx0, Http400("Either local_path or directory must be provided."))
      c2 == Resolve(c1, get_connection(p.database))
      c3 == ingest_to_database(c2, c2.conn, p.table_name, flt)
      c4 == SetStatus(SetMeta(c3, generate_metadata(c3.tbl)),
                      Upper(p.file_format) \o " data loaded into " \o Upper(p.database))
  IN Respond(c4, TRUE)

load_data(p, flt) ==
  LET c1 == IF p.directory # ""
            THEN ReadDataset(Ctx0, p.directory, p.file_format, p.partitioning, flt)
            ELSE IF p.local_path # ""
            THEN ReadDataset(Ctx0, p.local_path, p.file_format, <<>>, flt)
            ELSE Raise(Ctx0, Http400("Either local_path or directory must be provided."))
      c2 == Resolve(c1, get_connection(p.database))
      c3 == ingest_to_database(c2, c2.conn, p.table_name, flt)
      c4 == SetStatus(SetMeta(c3, generate_metadata(c3.tbl)),
                      Upper(p.file_format) \o " data loaded into " \o Upper(p.database))
  IN Respond(c4, TRUE)

\* the write of export_data: a dataset when partitioning is given, else a
\* parquet or feather file, else nothing
export_write(c, p, flt) ==
  IF p.partitioning # <<>>
  THEN WriteDataset(c, p.export_path, p.file_format, c.tbl, p.partitioning, flt)
  ELSE IF p.file_format = "parquet" THEN WriteFile(c, p.export_path, "parquet", c.tbl, flt)
  ELSE IF p.file_format = "feather" THEN WriteFile(c, p.export_path, "feather", c.tbl, flt)
  ELSE c

export_data(p, flt) ==
  LET c1 == MakeDirs(Ctx0, Dirname(p.export_path), flt)
      c2 == Resolve(c1, get_connection(p.database))
      c3 == ExecuteFetch(c2, c2.conn, p.table_name, flt)
      c4 == export_write(c3, p, flt)
      c5 == SetStatus(SetMeta(c4, generate_metadata(c4.tbl)),
                      "Table exported to " \o Upper(p.file_format) \o " from "
                        \o Upper(p.database))
  IN Respond(c5, TRUE)

\* the write of export_connectorx: feather or parquet, else an HTTPException(400)
connectorx_write(c, p, flt) ==
  IF c.exc # NoExc THEN c
  ELSE IF p.file_format \in {"feather", "parquet"}
       THEN IF p.partitioning # <<>>
            THEN WriteDataset(c, p.export_path, p.file_format, c.tbl, p.partitioning, flt)
            ELSE WriteFile(c, p.export_path, p.file_format, c.tbl, flt)
  ELSE Raise(c, Http400("Unsupported file format"))

export_connectorx(p, flt) ==
  LET c1 == MakeDirs(Ctx0, Dirname(p.export_path), flt)
      c2 == ResolveUri(c1, source_uri(p.database))
      c3 == ReadSql(c2, c2.uri, p.table_name, p.partitioning, flt)
      c4 == connectorx_write(c3, p, flt)
      c5 == SetStatus(SetMeta(c4, generate_metadata(c4.tbl)),
                      "Table exported to " \o Upper(p.file_format) \o " from "
                        \o Upper(p.database) \o " using ConnectorX")
  IN Respond(c5, TRUE)

\* an except block that only builds the error response
RespondWithoutRollback(c, cn, flt) == Respond(c, TRUE)

\* except Exception as e: conn.rollback(); raise HTTPException(500, str(e)).
\* cn is the handler's local: when it was never bound the rollback line itself
\* raises, and so does a rollback the driver refuses; either exception leaves
\* the handler
RollbackAndRespond(c, cn, flt) ==
  IF c.exc = NoExc THEN [ctx |-> c, resp |-> Ok(c, TRUE)]
  ELSE IF cn = "unbound" THEN [ctx |-> c, resp |-> ServerError]
  ELSE IF flt.rb THEN [ctx |-> [Logged(c, "rollback", cn, FALSE) EXCEPT !.rbhit = TRUE],
                        resp |-> ServerError]
  ELSE [ctx |-> [Logged(c, "rollback", cn, TRUE) EXCEPT !.session[cn] = c.durable[cn]],
        resp |-> Http500(c.exc)]

copy_table(p, flt) ==
  LET c1 == Resolve(Ctx0, get_connection(p.database))
      c2 == ExecuteFetch(c1, c1.conn, p.source_table, flt)
      c3 == AdbcIngest(c2, c2.conn, p.target_table, flt)
      c4 == Commit(c3, c3.conn, flt)
      c5 == SetStatus(SetMeta(c4, generate_metadata(c4.tbl)), "Table copied successfully")
  IN RollbackAndRespond(c5, c5.conn, flt)

copy_tablex(p, flt) ==
  LET c1 == ResolveUri(Ctx0, source_uri(p.database))
      c2 == ReadSql(c1, c1.uri, p.source_table, <<>>, flt)
      c3 == Resolve(c2, get_connection(p.database))
      c4 == ingest_to_database(c3, c3.conn, p.target_table, flt)
      c5 == SetStatus(SetMeta(c4, generate_metadata(c4.tbl)),
                      "Table copied successfully using ConnectorX")
  IN Respond(c5, TRUE)

\* the write of export_pgeon: parquet, else an HTTPException(400)
pgeon_write(c, p, flt) ==
  IF c.exc # NoExc THEN c
  ELSE IF p.file_format = "parquet" THEN WriteFile(c, p.export_path, "parquet", c.tbl, flt)
  ELSE Raise(c, Http400("Unsupported file format"))

\* copy_query(pg_uri, query): always the PostgreSQL database
export_pgeon(p, flt) ==
  LET c1 == MakeDirs(Ctx0, Dirname(p.export_path), flt)
      c2 == ReadSql(c1, "postgres", p.table_name, <<>>, flt)
      c3 == pgeon_write(c2, p, flt)
      c4 == SetStatus(SetMeta(c3, generate_metadata(c3.tbl)),
                      "Table exported to " \o Upper(p.file_format) \o " using pgeon")
  IN Respond(c4, TRUE)

\* the six writes of generate_test_data, in order
TestWrites ==
  <<[path |-> CsvFile, format |-> "csv", partitioning |-> <<>>],
    [path |-> IpcFile, format |-> "feather", partitioning |-> <<>>],
    [path |-> ParquetFile, format |-> "parquet", partitioning |-> <<>>],
    [path |-> CsvDataset, format |-> "csv", partitioning |-> <<"ints">>],
    [path |-> IpcDataset, format |-> "feather", partitioning |-> <<"ints">>],
    [path |-> ParquetDataset, format |-> "parquet", partitioning |-> <<"ints">>]>>

NoFault == [at |-> "none", part |-> FALSE, rb |-> FALSE]

\* writes i.. of generate_test_data; the fault, if a write fault, hits write failAt
RECURSIVE WriteAll(_, _, _, _)
WriteAll(c, i, failAt, flt) ==
  IF i > Len(TestWrites) THEN c
  ELSE LET w == TestWrites[i]
           f == IF i = failAt THEN flt ELSE NoFault
       IN WriteAll(IF w.partitioning = <<>>
                   THEN WriteFile(c, w.path, w.format, TestTable, f)
                   ELSE WriteDataset(c, w.path, w.format, TestTable, w.partitioning, f),
                   i + 1, failAt, flt)

\* the same body in both services
generate_test_data(flt, failAt) ==
  LET c1 == MakeDirs(Ctx0, TestDir, flt)
      c2 == WriteAll(c1, 1, failAt, flt)
  IN Respond(SetStatus(c2, "Test data generated successfully"), FALSE)

-----------------------------------------------------------------------------
(* Handlers of src/python/app.py.  config.yaml names a PostgreSQL source and  *)
(* a second database as target (DatabaseConnectionManager refuses to start   *)
(* with any other type, so the "Unsupported ... database" branches are dead). *)

\* the if / elif / else that picks the ConnectorX URI from database_role
py_source_uri(database_role) ==
  IF database_role = "source" THEN [exc |-> NoExc, db |-> "source"]
  ELSE IF database_role = "target" THEN [exc |-> NoExc, db |-> "target"]
  ELSE [exc |-> Http400("Invalid database role"), db |-> ""]

py_load_data(p, flt) ==
  LET c1 == Resolve(Ctx0, db_manager_get_connection(p.database))
      rd == IF p.local_path # "" THEN ReadParquetFile(c1, p.local_path, flt)
            ELSE IF p.directory # ""
            THEN ReadDataset(c1, p.directory, "parquet", p.partitioning, flt)
            ELSE Raise(c1, Http400("Either local_path or directory must be provided."))
      c2 == AdbcIngest(rd, rd.conn, p.table_name, flt)
      c3 == SetMeta(c2, py_generate_metadata(c2.tbl))
      c4 == Commit(c3, c3.conn, flt)
      c5 == SetStatus(c4, Upper(p.file_format) \o " data loaded into " \o Upper(p.database))
  IN Respond(c5, TRUE)

py_export_data(p, flt) ==
  LET c1 == MakeDirs(Ctx0, Dirname(p.export_path), flt)
      c2 == Resolve(c1, db_manager_get_connection(p.database))
      c3 == ExecuteFetch(c2, c2.conn, p.table_name, flt)
      c4 == export_write(c3, p, flt)
      c5 == SetStatus(SetMeta(c4, py_generate_metadata(c4.tbl)),
                      "Table exported to " \o Upper(p.file_format) \o " from "
                        \o Upper(p.database))
  IN Respond(c5, TRUE)

py_export_connectorx(p, flt) ==
  LET c1 == MakeDirs(Ctx0, Dirname(p.export_path), flt)
      c2 == ResolveUri(c1, py_source_uri(p.database))
      c3 == ReadSql(c2, c2.uri, p.table_name, p.partitioning, flt)
      c4 == connectorx_write(c3, p, flt)
      c5 == SetStatus(SetMeta(c4, py_generate_metadata(c4.tbl)),
                      "Table exported to " \o Upper(p.file_format) \o " from "
                        \o Upper(p.database) \o " using ConnectorX")
  IN Respond(c5, TRUE)

\* source_conn and target_conn are both bound before anything can fail
py_copy_table(p, flt) ==
  LET c1 == Resolve(Ctx0, db_manager_get_connection("source"))
      c2 == Resolve(c1, db_manager_get_connection("target"))
      c3 == ExecuteFetch(c2, "source", p.source_table, flt)
      c4 == AdbcIngest(c3, "target", p.target_table, flt)
      c5 == Commit(c4, "target", flt)
      c6 == SetStatus(SetMeta(c5, py_generate_metadata(c5.tbl)), "Table copied successfully")
  IN RollbackAndRespond(c6, c6.conn, flt)

py_copy_tablex(p, flt) ==
  LET c1 == ResolveUri(Ctx0, py_source_uri("source"))
      c2 == ReadSql(c1, "source", p.source_table, <<>>, flt)
      c3 == Resolve(c2, db_manager_get_connection("target"))
      c4 == ingest_to_database(c3, c3.conn, p.target_table, flt)
      c5 == SetStatus(SetMeta(c4, py_generate_metadata(c4.tbl)),
                      "Table copied successfully using ConnectorX")
  IN Respond(c5, TRUE)

\* copy_query(get_pg_uri(config['database']['source']), query)
py_export_pgeon(p, flt) ==
  LET c1 == MakeDirs(Ctx0, Dirname(p.export_path), flt)
      c2 == ReadSql(c1, "source", p.table_name, <<>>, flt)
      c3 == pgeon_write(c2, p, flt)
      c4 == SetStatus(SetMeta(c3, py_generate_metadata(c3.tbl)),
                      "Table exported to " \o Upper(p.file_format) \o " using pgeon")
  IN Respond(c4, TRUE)

-----------------------------------------------------------------------------
(* State machine *)

\* what the databases hold at start-up: one table in the first database
SeedSchema == <<Field("id", "int64")>>
SeedRows == <<4>>
FirstConn(s) == IF s = "root" THEN "postgres" ELSE "source"

\* base_dir at start-up: empty, or holding the files of an earlier
\* generate-test-data
NoFiles == [dirs |-> {}, files |-> [p \in FilePaths |-> NoFile]]
generate_test_data_files ==
  [dirs |-> {TestDir},
   files |-> [p \in FilePaths |->
                IF \E i \in DOMAIN TestWrites : TestWrites[i].path = p
                THEN LET w == TestWrites[CHOOSE i \in DOMAIN TestWrites : TestWrites[i].path = p]
                     IN IF w.partitioning = <<>> THEN FileOf(w.format, TestTable)
                        ELSE DatasetOf(w.format, TestTable, w.partitioning)
                ELSE NoFile]]

\* the event loop uvicorn.run starts: `running` is the task whose coroutine
\* holds the loop (0: none), tasks[t] is the handler coroutine of request t and
\* pc the call it makes next
Tasks == 1..MaxRequests
IdleTask == [pc |-> "idle", req |-> NoReq, tbl |-> NoTbl, conn |-> "unbound", exc |-> NoExc]
LoopIdle == [running |-> 0, tasks |-> [t \in Tasks |-> IdleTask]]

Init ==
  /\ svc \in Services
  /\ conns = IF svc = "root" THEN [postgres |-> 1, sqlite |-> 2]
             ELSE [source |-> 1, target |-> 2]
  /\ durable = [cn \in ConnNames(svc) |->
                  IF cn = FirstConn(svc)
                  THEN [EmptyDb EXCEPT !["t1"] = DbTable(SeedSchema, SeedRows)]
                  ELSE EmptyDb]
  /\ session = durable
  /\ fs \in {NoFiles, generate_test_data_files}
  /\ req = NoReq
  /\ resp = [code |-> 0, body |-> NoMeta]
  /\ log = <<>>
  /\ used = {}
  /\ raised = NoExc
  /\ moved = NoTbl
  /\ served = 0
  /\ loop = LoopIdle

\* the fault named for a request is one the request meets: its call is reached
\* and raises (a fault on a call the handler never makes is no fault)
Fires(flt, c) ==
  /\ flt.at # "none" => c.hit
  /\ flt.part => c.session # session
  /\ flt.rb => c.rbhit

\* one request served: the handler's effects and its response
Serve(rq, flt, out) ==
  /\ served < MaxRequests
  /\ Fires(flt, out.ctx)
  /\ served' = served + 1
  /\ session' = out.ctx.session
  /\ durable' = out.ctx.durable
  /\ fs' = out.ctx.fs
  /\ log' = out.ctx.log
  /\ used' = out.ctx.used
  /\ raised' = out.ctx.exc
  /\ moved' = out.ctx.tbl
  /\ resp' = out.resp
  /\ req' = rq
  /\ UNCHANGED <<svc, conns, loop>>

LoadData ==
  /\ svc = "root"
  /\ \E p \in LoadDataRequests("root"), flt \in FaultsAt({"read", "ingest", "commit"}, FALSE) :
       Serve(p, flt, load_data(p, flt))

ExportData ==
  /\ svc = "root"
  /\ \E p \in ExportDataRequests("root", "export-data", Formats, Partitionings),
        flt \in FaultsAt({"makedirs", "query", "write"}, FALSE) :
       Serve(p, flt, export_data(p, flt))

ExportConnectorx ==
  /\ svc = "root"
  /\ \E p \in ExportDataRequests("root", "export-connectorx", ConnectorxFormats, Partitionings),
        flt \in FaultsAt({"makedirs", "query", "write"}, FALSE) :
       Serve(p, flt, export_connectorx(p, flt))

CopyTable ==
  /\ svc = "root"
  /\ \E p \in CopyTableRequests("root", "direct-load"),
        flt \in FaultsAt({"query", "ingest", "commit"}, TRUE) :
       Serve(p, flt, copy_table(p, flt))

CopyTablex ==
  /\ svc = "root"
  /\ \E p \in CopyTableRequests("root", "copy-tablex"),
        flt \in FaultsAt({"query", "ingest", "commit"}, FALSE) :
       Serve(p, flt, copy_tablex(p, flt))

ExportPgeon ==
  /\ svc = "root"
  /\ \E p \in ExportDataRequests("root", "export-pgeon", PgeonFormats, {<<>>}),
        flt \in FaultsAt({"makedirs", "query", "write"}, FALSE) :
       Serve(p, flt, export_pgeon(p, flt))

GenerateTestData ==
  /\ \E flt \in FaultsAt({"makedirs", "write"}, FALSE), failAt \in DOMAIN TestWrites :
       /\ flt.at # "write" => failAt = 1
       /\ Serve([NoReq EXCEPT !.endpoint = "generate-test-data"], flt,
                generate_test_data(flt, failAt))

PyLoadData ==
  /\ svc = "python"
  /\ \E p \in LoadDataRequests("python"), flt \in FaultsAt({"read", "ingest", "commit"}, FALSE) :
       Serve(p, flt, py_load_data(p, flt))

PyExportData ==
  /\ svc = "python"
  /\ \E p \in ExportDataRequests("python", "export-data", Formats, Partitionings),
        flt \in FaultsAt({"makedirs", "query", "write"}, FALSE) :
       Serve(p, flt, py_export_data(p, flt))

PyExportConnectorx ==
  /\ svc = "python"
  /\ \E p \in ExportDataRequests("python", "export-connectorx", ConnectorxFormats, Partitionings),
        flt \in FaultsAt({"makedirs", "query", "write"}, FALSE) :
       Serve(p, flt, py_export_connectorx(p, flt))

PyCopyTable ==
  /\ svc = "python"
  /\ \E p \in CopyTableRequests("python", "direct-load"),
        flt \in FaultsAt({"query", "ingest", "commit"}, TRUE) :
       Serve(p, flt, py_copy_table(p, flt))

PyCopyTablex ==
  /\ svc = "python"
  /\ \E p \in CopyTableRequests("python", "copy-tablex"),
        flt \in FaultsAt({"query", "ingest", "commit"}, FALSE) :
       Serve(p, flt, py_copy_tablex(p, flt))

PyExportPgeon ==
  /\ svc = "python"
  /\ \E p \in ExportDataRequests("python", "export-pgeon", PgeonFormats, {<<>>}),
        flt \in FaultsAt({"makedirs", "query", "write"}, FALSE) :
       Serve(p, flt, py_export_pgeon(p, flt))

Next ==
  \/ LoadData \/ ExportData \/ ExportConnectorx \/ CopyTable \/ CopyTablex
  \/ ExportPgeon \/ GenerateTestData
  \/ PyLoadData \/ PyExportData \/ PyExportConnectorx \/ PyCopyTable \/ PyCopyTablex
  \/ PyExportPgeon

Spec == Init /\ [][Next]_vars

-----------------------------------------------------------------------------
(* The event loop: the copy handlers call by call *)

\* a copy handler with an await between adbc_ingest and commit
SuspensionPointsAwaitBeforeCommit(ep) == {"commit"}

\* the calls before which a handler's coroutine gives the loop back: every
\* handler is an `async def` whose body has no await, so there are none
SuspensionPoints(ep) == {}

\* the single loop runs a coroutine until it awaits or returns; a coroutine
\* not yet started, or suspended, is run only when the loop is free
CanRun(t) ==
  \/ loop.running = t
  \/ /\ loop.running = 0
     /\ \/ loop.tasks[t].pc = "start"
        \/ loop.tasks[t].pc \in SuspensionPoints(loop.tasks[t].req.endpoint)

\* the loop once task t has made a call and stands as `task`
Advance(t, task) ==
  [running |-> IF task.pc = "done" \/ task.pc \in SuspensionPoints(task.req.endpoint)
               THEN 0 ELSE t,
   tasks |-> [loop.tasks EXCEPT ![t] = task]]

\* the handler's locals as a context over the current databases
TaskCtx(task) == [Ctx0 EXCEPT !.tbl = task.tbl, !.conn = task.conn, !.exc = task.exc]
\* the handler's locals after a call: an exception leads to the except block
After(task, c, nxt) ==
  [task EXCEPT !.pc = IF c.exc # NoExc THEN "except" ELSE nxt,
               !.tbl = c.tbl, !.conn = c.conn, !.exc = c.exc]

LoopRequests == CopyTableRequests(svc, "direct-load") \cup CopyTableRequests(svc, "copy-tablex")

\* the read of the source table: through the shared connection in direct-load,
\* through ConnectorX in copy-tablex
copy_fetch(r) ==
  IF svc = "root"
  THEN IF r.endpoint = "direct-load"
       THEN LET c1 == Resolve(Ctx0, get_connection(r.database))
            IN ExecuteFetch(c1, c1.conn, r.source_table, NoFault)
       ELSE LET c1 == ResolveUri(Ctx0, source_uri(r.database))
            IN ReadSql(c1, c1.uri, r.source_table, <<>>, NoFault)
  ELSE IF r.endpoint = "direct-load"
       THEN LET c1 == Resolve(Ctx0, db_manager_get_connection("source"))
                c2 == Resolve(c1, db_manager_get_connection("target"))
            IN ExecuteFetch(c2, "source", r.source_table, NoFault)
       ELSE LET c1 == ResolveUri(Ctx0, py_source_uri("source"))
            IN ReadSql(c1, "source", r.source_table, <<>>, NoFault)

\* cur.adbc_ingest(target_table, table, mode="create_append"); copy-tablex
\* obtains its connection just before
copy_ingest(task, flt) ==
  LET c0 == TaskCtx(task)
      c1 == IF task.req.endpoint = "direct-load" THEN c0
            ELSE IF svc = "root" THEN Resolve(c0, get_connection(task.req.database))
            ELSE Resolve(c0, db_manager_get_connection("target"))
  IN AdbcIngest(c1, c1.conn, task.req.target_table, flt)

\* a request reaches the server; requests are numbered as they arrive
LoopArrive ==
  \E t \in Tasks :
    /\ loop.tasks[t].pc = "idle"
    /\ t > 1 => loop.tasks[t - 1].pc # "idle"
    /\ loop' = [loop EXCEPT !.tasks[t].pc = "start"]
    /\ UNCHANGED <<svc, conns, durable, session, fs, req, resp, log, used, raised, moved,
                   served>>

\* the handler starts with the parsed request and reads the source table
LoopFetch ==
  \E t \in Tasks, r \in LoopRequests :
    /\ loop.tasks[t].pc = "start"
    /\ CanRun(t)
    /\ loop' = Advance(t, After([loop.tasks[t] EXCEPT !.req = r], copy_fetch(r), "ingest"))
    /\ UNCHANGED <<svc, conns, durable, session, fs, req, resp, log, used, raised, moved,
                   served>>

LoopIngest ==
  \E t \in Tasks, flt \in FaultsAt({"ingest"}, FALSE) :
    LET task == loop.tasks[t]
        c == copy_ingest(task, flt)
    IN /\ task.pc = "ingest"
       /\ CanRun(t)
       /\ flt.part => c.session # session
       /\ session' = c.session
       /\ loop' = Advance(t, After(task, c, "commit"))
       /\ UNCHANGED <<svc, conns, durable, fs, req, resp, log, used, raised, moved, served>>

LoopCommit ==
  \E t \in Tasks, flt \in FaultsAt({"commit"}, FALSE) :
    LET task == loop.tasks[t]
        c == Commit(TaskCtx(task), task.conn, flt)
    IN /\ task.pc = "commit"
       /\ CanRun(t)
       /\ ~flt.part
       /\ durable' = c.durable
       /\ loop' = Advance(t, After(task, c, "return"))
       /\ UNCHANGED <<svc, conns, session, fs, req, resp, log, used, raised, moved, served>>

\* the except block: direct-load rolls its connection back, copy-tablex only
\* builds the error response
LoopExcept ==
  \E t \in Tasks :
    LET task == loop.tasks[t]
        out == IF task.req.endpoint = "direct-load"
               THEN RollbackAndRespond(TaskCtx(task), task.conn, NoFault)
               ELSE Respond(TaskCtx(task), TRUE)
    IN /\ task.pc = "except"
       /\ CanRun(t)
       /\ session' = out.ctx.session
       /\ loop' = Advance(t, [task EXCEPT !.pc = "return"])
       /\ UNCHANGED <<svc, conns, durable, fs, req, resp, log, used, raised, moved, served>>

\* the coroutine returns (or raises HTTPException) and the loop is free again
LoopReturn ==
  \E t \in Tasks :
    /\ loop.tasks[t].pc = "return"
    /\ CanRun(t)
    /\ loop' = Advance(t, [IdleTask EXCEPT !.pc = "done"])
    /\ UNCHANGED <<svc, conns, durable, session, fs, req, resp, log, used, raised, moved,
                   served>>

LoopNext == LoopArrive \/ LoopFetch \/ LoopIngest \/ LoopCommit \/ LoopExcept \/ LoopReturn

LoopSpec == Init /\ [][LoopNext]_vars

-----------------------------------------------------------------------------
(* Claims *)

IsError == resp.code >= 400
IsSuccess == resp.code = 200
ErrorDetail == IF "detail" \in DOMAIN resp.body THEN resp.body.detail ELSE ""

\* C1: in every POST handler of both services, any exception raised in the
\* handler body (the handler's own HTTPException(400) included) produces an
\* HTTP 500 whose detail is the text of that exception, and no handler body
\* produces any other error status.
C1_EveryFailureIs500WithExceptionText ==
  /\ raised # NoExc => resp = Http500(raised)
  /\ IsError => resp.code = 500 /\ raised # NoExc

\* C2: for /direct-load every failure yields an HTTP 500 whose detail is the
\* text of the original exception, also when the failure precedes the
\* resolution of the connection and when the handler's own rollback fails.
C2_DirectLoadFailureKeepsExceptionText ==
  (req.endpoint = "direct-load" /\ raised # NoExc)
    => (resp.code = 500 /\ ErrorDetail = Str(raised))

\* C3: in both services every success response of load-data, export-data,
\* export-connectorx, export-pgeon, direct-load and copy-tablex is an envelope
\* of status, time_taken and a metadata object holding exactly num_rows,
\* num_columns and schema (field name -> type), with num_rows the row count of
\* the table moved and num_columns the number of entries of schema;
\* generate-test-data returns the envelope without metadata.
C3_SuccessEnvelopeHasRowColumnSchemaMetadata ==
  IsSuccess =>
    IF req.endpoint = "generate-test-data"
    THEN DOMAIN resp.body = {"status", "time_taken"}
    ELSE /\ DOMAIN resp.body = {"status", "time_taken", "metadata"}
         /\ DOMAIN resp.body.metadata = {"num_rows", "num_columns", "schema"}
         /\ resp.body.metadata.num_rows = Len(moved.rows)
         /\ resp.body.metadata.num_columns = Cardinality(DOMAIN resp.body.metadata.schema)
         /\ DOMAIN resp.body.metadata.schema = FieldNames(moved.schema)
         /\ \A i \in DOMAIN moved.schema :
              resp.body.metadata.schema[moved.schema[i].name] = moved.schema[i].type

\* the calls that read or write data (files, directories, tables); a logged
\* call with ok = TRUE returned, so its data was read or written
DataOps == {"read_file", "makedirs", "query", "ingest", "commit", "write_file"}
ResolveOps == {"resolve", "uri"}
\* requests whose body carries a database identifier or role
NamesDatabase == req.database # ""
Unresolvable == NamesDatabase /\ req.database \notin ConnNames(svc)

\* C4: in every request handler the connection/URI is resolved before any
\* data is read or written: a request whose database identifier or role cannot
\* be resolved fails without having read a source file, created an export
\* directory or issued a query.
C4_ResolvedBeforeAnyDataIsTouched ==
  /\ NamesDatabase =>
       \A i \in DOMAIN log :
         (log[i].op \in DataOps /\ log[i].ok)
           => \E j \in 1..(i - 1) : log[j].op \in ResolveOps /\ log[j].ok
  /\ Unresolvable => IsError /\ \A i \in DOMAIN log : ~(log[i].op \in DataOps /\ log[i].ok)

Rollbacks == {i \in DOMAIN log : log[i].op = "rollback"}
\* the calls of the try body that raised
FailedCalls == {i \in DOMAIN log : log[i].op # "rollback" /\ ~log[i].ok}
\* the connection direct-load's except block rolls back
RollbackTarget == IF svc = "python" THEN "target" ELSE req.database

\* C5 (as stated): on failure no handler performs any recovery or compensating
\* action before responding: no retry, no rollback of the database connection,
\* no removal of a partially written file or directory.
C5_NoRecoveryOnFailure ==
  IsError => Rollbacks = {}

\* what a failed request did: the call that raised is the last call of the try
\* body (nothing is retried), and only /direct-load goes on to one rollback of
\* its own connection, issued exactly when that connection was obtained
C5_FailureHandling ==
  /\ Cardinality(FailedCalls) <= 1
  /\ \A i \in FailedCalls : \A j \in (i + 1)..Len(log) : j \in Rollbacks
  /\ \A i \in Rollbacks :
       /\ req.endpoint = "direct-load" /\ IsError
       /\ i = Len(log)
       /\ log[i].on = RollbackTarget
  /\ (req.endpoint = "direct-load" /\ IsError)
       => (Rollbacks # {} <=> (RollbackTarget \in DOMAIN conns
                                 /\ conns[RollbackTarget] \in used))
  /\ IsSuccess => FailedCalls = {}

\* no request removes a file or a directory
C5_NothingRemoved ==
  /\ fs.dirs \subseteq fs'.dirs
  /\ \A p \in FilePaths : fs.files[p].kind # "none" => fs'.files[p].kind # "none"

\* C5 (amended): on failure no handler retries the failed step or removes a
\* file or directory, and no handler other than /direct-load touches the
\* connection; /direct-load alone issues one rollback of its connection (the
\* target connection in src/python/app.py, the resolved connection in
\* src/app.py, none when the connection was never obtained) before responding.
C5_OnlyDirectLoadRollsBack ==
  []C5_FailureHandling /\ [][C5_NothingRemoved]_vars

C5_Witness ==
  /\ req.endpoint = "direct-load"
  /\ resp = Http500(raised)
  /\ Rollbacks = {Len(log)}
  /\ log[Len(log)].ok

ExportEndpoints == {"export-data", "export-connectorx", "export-pgeon"}
Queries == {i \in DOMAIN log : log[i].op = "query"}
Writes == {i \in DOMAIN log : log[i].op = "write_file" /\ log[i].ok}

\* C6: every export endpoint (export-data, export-connectorx, export-pgeon)
\* reads the table from the database the request's identifier/role selects
\* (so requests naming different databases read different databases), and a
\* request naming an unsupported database exports nothing.
C6_ExportReadsTheNamedDatabase ==
  req.endpoint \in ExportEndpoints =>
    /\ \A i \in Queries : log[i].on = req.database
    /\ Unresolvable => IsError /\ Writes = {}

\* C7: for each of the format tags csv, parquet and feather, with or without
\* a partition column list, export-data returns a success envelope only after
\* the table has been written to export_path.
C7_ExportDataSuccessMeansWritten ==
  (req.endpoint = "export-data" /\ IsSuccess) =>
    /\ Writes # {}
    /\ fs.files[req.export_path].kind # "none"
    /\ fs.files[req.export_path].format = req.file_format
    /\ fs.files[req.export_path].rows = moved.rows

\* the connections opened at start-up
StartupConns == IF svc = "root" THEN [postgres |-> 1, sqlite |-> 2]
                ELSE [source |-> 1, target |-> 2]
GetConnectionCalls == {i \in DOMAIN log : log[i].op = "resolve"}
\* the endpoints that pass the request's identifier / role to get_connection
\* (the python service's copies pass the literals "source" and "target")
ResolvesRequestDatabase ==
  \/ svc = "root" /\ req.endpoint \in {"load-data", "export-data", "direct-load", "copy-tablex"}
  \/ svc = "python" /\ req.endpoint \in {"load-data", "export-data"}

\* C8: get_connection is a total, stable mapping: 'postgres' / 'sqlite'
\* (src/app.py) and 'source' / 'target' (DatabaseConnectionManager) always
\* return the one connection opened for that name at start-up, any other
\* identifier raises ValueError, and no request opens, replaces or closes a
\* connection.
C8_GetConnectionIsTotalAndStable ==
  /\ conns = StartupConns
  /\ used = {conns[log[i].on] : i \in {j \in GetConnectionCalls : log[j].ok}}
  /\ \A i \in GetConnectionCalls :
       IF log[i].ok
       THEN /\ log[i].on \in ConnNames(svc)
            /\ ResolvesRequestDatabase => log[i].on = req.database
       ELSE /\ ResolvesRequestDatabase
            /\ req.database \notin ConnNames(svc)
            /\ raised.type = "ValueError"
            /\ used = {}
  /\ (ResolvesRequestDatabase /\ GetConnectionCalls = {}) => raised # NoExc

C8_Witness ==
  /\ ResolvesRequestDatabase
  /\ req.database \in ConnNames(svc) \ {FirstConn(svc)}
  /\ \E i \in GetConnectionCalls : log[i].ok /\ log[i].on = req.database
  /\ used = {StartupConns[req.database]}

\* both copy handlers applied to one request in the current state
DirectLoadOf(p) == IF svc = "root" THEN copy_table(p, NoFault) ELSE py_copy_table(p, NoFault)
CopyTablexOf(p) == IF svc = "root" THEN copy_tablex(p, NoFault) ELSE py_copy_tablex(p, NoFault)
CopyTarget(p) == IF svc = "root" THEN p.database ELSE "target"

\* C9: the two table-copy paths are equivalent in effect: from the same
\* database state and for the same request, a successful /direct-load and a
\* successful /copy-tablex leave the target table with the same contents
\* (the rows of the source table appended, the table created if absent),
\* leave the connection committed and return the same metadata.
C9_CopyPathsAreEquivalent ==
  \A p \in CopyTableRequests(svc, "copy") :
    LET a == DirectLoadOf(p)
        b == CopyTablexOf(p)
    IN (a.resp.code = 200 /\ b.resp.code = 200) =>
         /\ a.ctx.session[CopyTarget(p)][p.target_table]
              = b.ctx.session[CopyTarget(p)][p.target_table]
         /\ a.ctx.durable[CopyTarget(p)] = a.ctx.session[CopyTarget(p)]
         /\ b.ctx.durable[CopyTarget(p)] = b.ctx.session[CopyTarget(p)]
         /\ a.ctx.durable = b.ctx.durable
         /\ a.resp.body.metadata = b.resp.body.metadata

IngestEndpoints == {"load-data", "direct-load", "copy-tablex"}
\* the connection and the table a request ingests into
IngestConn(r) ==
  IF svc = "python" /\ r.endpoint \in {"direct-load", "copy-tablex"} THEN "target"
  ELSE r.database
IngestTable(r) == IF r.endpoint = "load-data" THEN r.table_name ELSE r.target_table
LastRows(rws, n) == IF Len(rws) < n THEN <<>> ELSE SubSeq(rws, Len(rws) - n + 1, Len(rws))

\* what a successful ingesting request does to the rows the database holds
\* for its target table
C10_CreateOrAppend ==
  (req'.endpoint \in IngestEndpoints /\ resp'.code = 200) =>
    LET cn == IngestConn(req')
        t == IngestTable(req')
        before == durable[cn][t]
        after == durable'[cn][t]
    IN /\ after.exists
       /\ after.rows = (IF before.exists THEN before.rows ELSE <<>>) \o moved'.rows
       /\ (svc = "root" /\ req'.endpoint = "direct-load"
             /\ req'.source_table = req'.target_table)
            => after.rows = before.rows \o before.rows
       /\ (req' = req /\ resp.code = 200 /\ moved' = moved)
            => LastRows(after.rows, 2 * Len(moved.rows)) = moved.rows \o moved.rows

\* C10: ingestion is create-or-append and therefore not idempotent: a
\* successful load-data or copy into a table that does not exist creates it
\* with exactly the ingested rows, into an existing table it keeps every
\* existing row and adds the ingested rows, so identical successful requests
\* each add one more copy of the input rows; in src/app.py a /direct-load
\* whose source_table equals target_table doubles the table.
C10_IngestionIsCreateOrAppend == [][C10_CreateOrAppend]_vars

Ingests == {i \in DOMAIN log : log[i].op = "ingest"}
Commits == {i \in DOMAIN log : log[i].op = "commit"}

\* C11: in every handler that ingests (load-data, direct-load, copy-tablex),
\* commit is called on a connection only after adbc_ingest on that same
\* connection has returned without error, exactly once per successful
\* request and never for a request whose ingest raised; a success response
\* is sent only after that commit returned.
C11_CommitFollowsSuccessfulIngest ==
  req.endpoint \in IngestEndpoints =>
    /\ \A i \in Commits :
         \E j \in Ingests : j < i /\ log[j].ok /\ log[j].on = log[i].on
    /\ Cardinality(Commits) <= 1
    /\ (\E j \in Ingests : ~log[j].ok) => Commits = {}
    /\ IsSuccess =>
         /\ Cardinality(Commits) = 1
         /\ \A i \in Commits : log[i].ok /\ log[i].on = IngestConn(req) /\ i = Len(log)
         /\ durable[IngestConn(req)] = session[IngestConn(req)]

C11_Witness ==
  /\ req.endpoint \in IngestEndpoints
  /\ IsSuccess
  /\ \E j \in Ingests, i \in Commits :
       j < i /\ log[j].ok /\ log[i].ok /\ log[j].on = log[i].on
  /\ moved.rows # <<>>

Reads == {i \in DOMAIN log : log[i].op = "read_file"}
BothSupplied == req.local_path # "" /\ req.directory # ""
NeitherSupplied == req.local_path = "" /\ req.directory = ""
\* the one location a load-data request is said to read
SourceLocation ==
  IF BothSupplied THEN (IF svc = "root" THEN req.directory ELSE req.local_path)
  ELSE IF req.directory # "" THEN req.directory
  ELSE req.local_path
\* the partition column list is in force only for a directory source
AppliedPartitioning == IF SourceLocation = req.directory THEN req.partitioning ELSE <<>>

\* C12: load-data ingests from exactly one source location per request: with
\* both local_path and directory supplied src/app.py reads the directory and
\* ignores local_path while src/python/app.py reads local_path and ignores
\* directory; the partition column list is applied only when the directory is
\* the source; with neither supplied (or both empty strings) nothing is
\* ingested, nothing is committed and the request fails.
C12_LoadDataReadsOneSource ==
  req.endpoint = "load-data" =>
    /\ Cardinality(Reads) <= 1
    /\ \A i \in Reads : log[i].on = SourceLocation
    /\ \A i \in Reads : log[i].ok => moved = ReadEntry(fs.files[SourceLocation], AppliedPartitioning)
    /\ IsSuccess => /\ \E i \in Reads : log[i].ok
                    /\ Cardinality(Ingests) = 1
                    /\ session[req.database][req.table_name].exists
                    /\ LastRows(session[req.database][req.table_name].rows, Len(moved.rows))
                         = moved.rows
    /\ NeitherSupplied => IsError /\ Reads = {} /\ Ingests = {} /\ Commits = {}

C12_Witness ==
  /\ req.endpoint = "load-data"
  /\ BothSupplied
  /\ req.partitioning # <<>>
  /\ IsSuccess
  /\ \E i \in Reads : log[i].ok /\ log[i].on = SourceLocation

CopyEndpoints == {"direct-load", "copy-tablex"}

\* what one copy request leaves of its source: in the python service the
\* whole source database, in src/app.py the source table when it is not also
\* the target
C13_SourceUnchanged ==
  req'.endpoint \in CopyEndpoints =>
    /\ svc = "python" =>
         /\ durable'["source"] = durable["source"]
         /\ session'["source"] = session["source"]
    /\ (svc = "root" /\ req'.database \in ConnNames(svc)
          /\ req'.source_table # req'.target_table) =>
         /\ durable'[req'.database][req'.source_table]
              = durable[req'.database][req'.source_table]
         /\ session'[req'.database][req'.source_table]
              = session[req'.database][req'.source_table]

\* C13: a table copy never modifies its source: in src/python/app.py
\* /direct-load and /copy-tablex only read the source database and write only
\* through the 'target' connection, so every table of the source database is
\* unchanged after any sequence of copy requests; in src/app.py the source
\* table is unchanged whenever source_table differs from target_table.
C13_CopyNeverModifiesItsSource == [][C13_SourceUnchanged]_vars

\* the connections the last request obtained
UsedConns == {cn \in DOMAIN conns : conns[cn] \in used}

\* C14: after any request that ends with an error response, the shared
\* connection it used holds no uncommitted ingested rows (so the commit of a
\* later successful request never makes durable rows that an earlier failed
\* request ingested).
C14_NoUncommittedRowsAfterError ==
  IsError => \A cn \in UsedConns : session[cn] = durable[cn]

\* a request in progress: its handler has started and has not returned
InProgress(t) == loop.tasks[t].pc \in {"ingest", "commit", "except", "return"}
Stepped(t) == loop'.tasks[t] # loop.tasks[t] /\ loop.tasks[t].pc # "idle"

C15_OneRequestAtATime ==
  /\ Cardinality({t \in Tasks : InProgress(t)}) <= 1
  /\ \A t \in Tasks : InProgress(t) => loop.running = t
C15_StepsDoNotInterleave ==
  \A t \in Tasks : Stepped(t) => \A u \in Tasks \ {t} : ~InProgress(u)

\* C15: requests never interleave on the shared connections: every handler
\* is a coroutine with no suspension point between its first and last use of
\* a connection, so on the single event loop each request's execute / fetch /
\* ingest / commit / rollback sequence runs to completion before any step of
\* another request starts, and no request commits or rolls back work that
\* another request has in progress.
C15_RequestsNeverInterleave ==
  []C15_OneRequestAtATime /\ [][C15_StepsDoNotInterleave]_vars

C15_Witness ==
  \E t, u \in Tasks :
    /\ loop.tasks[t].pc = "commit"
    /\ session # durable
    /\ loop.tasks[u].pc = "start"

====
